---- MODULE Spec2Model ----
(***************************************************************************)
(* A model of react/features/mobile/watchos/middleware.js: the phone side  *)
(* of the Apple Watch synchronisation.  The redux store, the three store   *)
(* listeners, the middleware and the two transport callbacks registered by *)
(* _appWillMount are modelled; every step of the model is one event of the *)
(* single JavaScript thread, run to completion.                            *)
(***************************************************************************)
EXTENDS Integers, Sequences, FiniteSets, TLC

VARIABLES
    store,           \* the redux state read by the selectors
    prevSelections,  \* StateListenerRegistry: last selection seen per listener
    subscriptions,   \* how many times _appWillMount registered the callbacks
    published,       \* watch.updateApplicationContext calls of the last event
    hostActions,     \* appNavigate / setAudioMuted dispatches of the last event
    rotations,       \* setSessionId dispatches of the last event
    lastEvent,       \* the event the last step processed
    lastSnapshot,    \* the context of the most recent publish attempt, if any
    pastSessionIDs   \* the session ids that a rotation has replaced

vars == <<store, prevSelections, subscriptions, published, hostActions,
          rotations, lastEvent, lastSnapshot, pastSessionIDs>>

----------------------------------------------------------------------------
(* Bounds of the model. *)

MaxSessionID == 3
MaxTime == 1
MaxMounts == 2
MaxRecentLen == 1
MaxWideLen == 5

----------------------------------------------------------------------------
(* JavaScript values.  An optional value is <<>> (undefined) or <<v>>.     *)
(* A string is the sequence of its characters.  A value whose type matters *)
(* to === is a record of its type and its value; the string of a number n  *)
(* is its decimal rendering, kept as n.                                    *)

Undefined == <<>>
Some(v) == <<v>>

JSUndefined == [type |-> "undefined", value |-> 0]
JSNumber(n) == [type |-> "number", value |-> n]
JSString(n) == [type |-> "string", value |-> n]

\* !v is false exactly for a truthy v: undefined and the number 0 are falsy,
\* a decimal rendering is never the empty string.
Truthy(v) ==
    CASE v.type = "undefined" -> FALSE
      [] v.type = "number" -> v.value # 0
      [] v.type = "string" -> TRUE

\* a === b: no conversion between types.
StrictEquals(a, b) == a.type = b.type /\ a.value = b.value

\* String.prototype.substr(-1): the last character, "" for the empty string.
SubstrLast(s) == IF Len(s) = 0 THEN <<>> ELSE <<s[Len(s)]>>

\* String.prototype.toLowerCase, over the letters the watch states use.
LowerChar(c) ==
    CASE c = "A" -> "a" [] c = "C" -> "c" [] c = "T" -> "t" [] c = "I" -> "i"
      [] c = "V" -> "v" [] c = "E" -> "e" [] c = "D" -> "d" [] c = "N" -> "n"
      [] OTHER -> c

toLowerCase(s) == [i \in 1..Len(s) |-> LowerChar(s[i])]

\* Array.prototype.slice(begin): a new array; a negative begin counts from
\* the end and is clamped to 0.
ArraySlice(arr, begin) ==
    LET len == Len(arr.elems)
        k == IF begin < 0
             THEN (IF len + begin < 0 THEN 0 ELSE len + begin)
             ELSE (IF begin > len THEN len ELSE begin)
    IN [ref |-> "copy", elems |-> SubSeq(arr.elems, k + 1, len)]

\* Array.prototype.reverse: reverses the receiver in place.
ArrayReverse(arr) ==
    [ref |-> arr.ref,
     elems |-> [i \in 1..Len(arr.elems) |-> arr.elems[Len(arr.elems) + 1 - i]]]

----------------------------------------------------------------------------
(* Constants of ./constants and the values the model draws its inputs from. *)

CMD_HANG_UP == "HANG_UP"
CMD_JOIN_CONFERENCE == "JOIN_CONFERENCE"
CMD_SET_MUTED == "SET_MUTED"
MAX_RECENT_URLS == 3

InitSessionID == 1

\* URL strings the host can be on: two rooms and a URL with nothing after
\* the last slash.
URLStrings == { <<"a">>, <<"b">>, <<"a", "/">> }

RecentEntries == { "a", "b", "c", "d", "e" }

WatchStates ==
    { <<"a","c","t","i","v","a","t","e","d">>,
      <<"A","c","t","i","v","a","t","e","d">>,
      <<"A","C","T","I","V","A","T","E","D">>,
      <<"I","n","a","c","t","i","v","e">> }

ACTIVATED == <<"a","c","t","i","v","a","t","e","d">>

----------------------------------------------------------------------------
(* The selectors of middleware.js.  `state` is the redux state:            *)
(*   locationURL          features/base/connection (undefined: not ready)  *)
(*   audioMuted           features/base/media .audio.muted                 *)
(*   recentList           features/recent-list                             *)
(*   sessionID, conferenceTimestamp      features/mobile/watchos           *)

isInviteURLReady(state) == state.locationURL # Undefined

getInviteURL(state) == state.locationURL[1]

toURLString(url) == url

\* A canonicalisation that lets a URL ending with a slash through.
_getCurrentConferenceUrl_KeepsSlash(state) ==
    IF isInviteURLReady(state)
    THEN Some(toURLString(getInviteURL(state)))
    ELSE Undefined

_getCurrentConferenceUrl(state) ==
    LET ready == IF isInviteURLReady(state)
                 THEN Some(toURLString(getInviteURL(state)))
                 ELSE Undefined
        \* currentUrl && currentUrl.substr(-1) === '/'
        noSlash == IF /\ ready # Undefined
                      /\ Len(ready[1]) > 0
                      /\ SubstrLast(ready[1]) = <<"/">>
                   THEN Undefined
                   ELSE ready
    IN  \* currentUrl ? currentUrl : undefined
        IF noSlash # Undefined /\ Len(noSlash[1]) > 0 THEN noSlash ELSE Undefined

_getSessionId(state) == JSNumber(state.sessionID)

\* A projection that reverses before it trims: the oldest entries survive.
_getRecentUrls_ReverseFirst(state) ==
    LET recentURLs == [ref |-> "store", elems |-> state.recentList]
        reversed == ArrayReverse(ArraySlice(recentURLs, 0))
    IN [returned |-> ArraySlice(reversed, 0 - MAX_RECENT_URLS).elems,
        state |-> state]

\* The store's array is sliced into a new array, which is reversed in place;
\* `state` is the redux state after the call.
_getRecentUrls(state) ==
    LET recentURLs == [ref |-> "store", elems |-> state.recentList]
        reversedList == ArrayReverse(ArraySlice(recentURLs, 0 - MAX_RECENT_URLS))
    IN [returned |-> reversedList.elems,
        state |-> IF reversedList.ref = "store"
                  THEN [state EXCEPT !.recentList = reversedList.elems]
                  ELSE state]

_isAudioMuted(state) == state.audioMuted

----------------------------------------------------------------------------
(* One event runs on a machine m: the store, the registry's previous       *)
(* selections and what the event has done so far.  env holds the event's   *)
(* outside input: whether the transport throws.  m.uncaught says that an    *)
(* exception has left a handler, m.next that the middleware has passed its  *)
(* action on.                                                               *)

\* A context that leaves the conference timestamp out.
Context_NoTimestamp(state) ==
    [conferenceTimestamp |-> Undefined,
     conferenceURL |-> _getCurrentConferenceUrl(state),
     micMuted |-> _isAudioMuted(state),
     recentURLs |-> _getRecentUrls(state).returned,
     sessionID |-> state.sessionID]

Context(state) ==
    [conferenceTimestamp |-> state.conferenceTimestamp,
     conferenceURL |-> _getCurrentConferenceUrl(state),
     micMuted |-> _isAudioMuted(state),
     recentURLs |-> _getRecentUrls(state).returned,
     sessionID |-> state.sessionID]

\* A publish without the try: what the transport throws leaves the function.
_updateApplicationContext_NoCatch(m, env) ==
    [m EXCEPT !.store = _getRecentUrls(m.store).state,
              !.published = Append(@, [context |-> Context(m.store),
                                       threw |-> env.throws]),
              !.uncaught = @ \/ env.throws]

\* try { watch.updateApplicationContext(...) } catch (error) { log }
_updateApplicationContext(m, env) ==
    [m EXCEPT !.store = _getRecentUrls(m.store).state,
              !.published = Append(@, [context |-> Context(m.store),
                                       threw |-> env.throws])]

RecentListSelector(state) == state.recentList
AudioMutedSelector(state) == _isAudioMuted(state)
\* A selector that watches the invite URL before it is canonicalised.
ConferenceUrlSelector_Raw(state) == state.locationURL

ConferenceUrlSelector(state) == _getCurrentConferenceUrl(state)

\* ./actions and the watchos reducer.
setSessionId(state) == [state EXCEPT !.sessionID = state.sessionID + 1]

setConferenceTimestamp(state, time) ==
    [state EXCEPT !.conferenceTimestamp = Some(time)]

RECURSIVE NotifyListeners(_, _)

\* store.dispatch of an action of this feature: reduce, then notify.
Dispatch(m, newState, env) == NotifyListeners([m EXCEPT !.store = newState], env)

\* A recent-list listener that does not publish.
RecentListListener_Silent(m, env) == m

RecentListListener(m, env) == _updateApplicationContext(m, env)

\* A mute listener that starts a new session, as the URL listener does.
AudioMutedListener_Rotates(m, env) ==
    _updateApplicationContext(
        Dispatch([m EXCEPT !.rotations = @ + 1], setSessionId(m.store), env), env)

AudioMutedListener(m, env) == _updateApplicationContext(m, env)

\* A URL listener that publishes without starting a new session.
ConferenceUrlListener_NoRotation(m, env) == _updateApplicationContext(m, env)

ConferenceUrlListener(m, env) ==
    LET rotated == Dispatch([m EXCEPT !.rotations = @ + 1],
                            setSessionId(m.store), env)
    IN _updateApplicationContext(rotated, env)

\* StateListenerRegistry._listener: the listeners in registration order, each
\* called when its selection differs from the one it saw last.
NotifyListeners(m, env) ==
    LET sel1 == RecentListSelector(m.store)
        m1 == IF m.prevSelections.recent # sel1
              THEN RecentListListener(
                       [m EXCEPT !.prevSelections.recent = sel1], env)
              ELSE m
        sel2 == AudioMutedSelector(m1.store)
        m2 == IF m1.prevSelections.muted # sel2
              THEN AudioMutedListener(
                       [m1 EXCEPT !.prevSelections.muted = sel2], env)
              ELSE m1
        sel3 == ConferenceUrlSelector(m2.store)
        m3 == IF m2.prevSelections.url # sel3
              THEN ConferenceUrlListener(
                       [m2 EXCEPT !.prevSelections.url = sel3], env)
              ELSE m2
    IN m3

----------------------------------------------------------------------------
(* The transport callbacks registered by _appWillMount.                    *)

appNavigate(url) ==
    [type |-> "appNavigate", url |-> url, muted |-> FALSE, ensureTrack |-> FALSE]

setAudioMuted(muted, ensureTrack) ==
    [type |-> "setAudioMuted", url |-> Undefined, muted |-> muted,
     ensureTrack |-> ensureTrack]

DispatchHost(m, action) == [m EXCEPT !.hostActions = Append(@, action)]

\* typeof v: a string, whatever v is.
Typeof(v) == IF v = Undefined THEN "undefined" ELSE "string"

WatchStateCallback(m, error, watchState, env) ==
    IF error
    THEN m
    ELSE IF toLowerCase(watchState) = ACTIVATED
         THEN _updateApplicationContext(m, env)
         ELSE m

\* A check that only asks for a session id to be present.
IsOutdated_PresenceOnly(sessionID, currentSessionID) == ~Truthy(sessionID)

\* A check that drops only the ids of sessions still to come.
IsOutdated_NewerOnly(sessionID, currentSessionID) ==
    ~Truthy(sessionID) \/ sessionID.value > currentSessionID.value

\* if (!sessionID || sessionID !== currentSessionID) return;
IsOutdated(sessionID, currentSessionID) ==
    ~Truthy(sessionID) \/ ~StrictEquals(sessionID, currentSessionID)

HangUp(m) ==
    IF Some(Typeof(_getCurrentConferenceUrl(m.store))) # Undefined
    THEN DispatchHost(m, appNavigate(Undefined))
    ELSE m

\* A join that navigates whatever the current conference is.
JoinConference_Always(m, message) == DispatchHost(m, appNavigate(message.data))

JoinConference(m, message) ==
    LET newConferenceURL == message.data
        oldConferenceURL == _getCurrentConferenceUrl(m.store)
    IN IF oldConferenceURL # newConferenceURL
       THEN DispatchHost(m, appNavigate(newConferenceURL))
       ELSE m

\* A mute that takes every payload but "false" for true.
SetMuted_NotFalse(m, message) ==
    DispatchHost(m, setAudioMuted(message.muted # Some("false"), TRUE))

SetMuted(m, message) ==
    DispatchHost(m, setAudioMuted(message.muted = Some("true"), TRUE))

\* A callback whose switch falls back on the hang-up for an unknown command.
MessageCallback_DefaultHangUp(m, error, message) ==
    IF error
    THEN m
    ELSE IF IsOutdated(message.sessionID, _getSessionId(m.store))
         THEN m
         ELSE CASE message.command = CMD_JOIN_CONFERENCE -> JoinConference(m, message)
                [] message.command = CMD_SET_MUTED -> SetMuted(m, message)
                [] OTHER -> HangUp(m)

\* A callback that does not look at the transport's error.
MessageCallback_IgnoresError(m, error, message) ==
    IF IsOutdated(message.sessionID, _getSessionId(m.store))
    THEN m
    ELSE CASE message.command = CMD_HANG_UP -> HangUp(m)
           [] message.command = CMD_JOIN_CONFERENCE -> JoinConference(m, message)
           [] message.command = CMD_SET_MUTED -> SetMuted(m, message)
           [] OTHER -> m

MessageCallback(m, error, message) ==
    IF error
    THEN m
    ELSE IF IsOutdated(message.sessionID, _getSessionId(m.store))
         THEN m
         ELSE CASE message.command = CMD_HANG_UP -> HangUp(m)
                [] message.command = CMD_JOIN_CONFERENCE -> JoinConference(m, message)
                [] message.command = CMD_SET_MUTED -> SetMuted(m, message)
                [] OTHER -> m

\* The transport calls every registered callback, in registration order.
RECURSIVE EachWatchStateCallback(_, _, _, _, _)
EachWatchStateCallback(n, m, error, watchState, env) ==
    IF n = 0
    THEN m
    ELSE EachWatchStateCallback(
             n - 1, WatchStateCallback(m, error, watchState, env),
             error, watchState, env)

RECURSIVE EachMessageCallback(_, _, _, _)
EachMessageCallback(n, m, error, message) ==
    IF n = 0
    THEN m
    ELSE EachMessageCallback(
             n - 1, MessageCallback(m, error, message), error, message)

----------------------------------------------------------------------------
(* Inputs. *)

RECURSIVE SeqsUpTo(_, _)
SeqsUpTo(S, n) ==
    IF n = 0
    THEN { <<>> }
    ELSE LET shorter == SeqsUpTo(S, n - 1)
         IN shorter \cup { Append(q, e) : q \in shorter, e \in S }

RecentLists == SeqsUpTo({ "a" }, MaxRecentLen)

LocationURLs == { Undefined } \cup { Some(u) : u \in URLStrings }

\* What the host application owns of the redux state.
HostStates ==
    [locationURL : LocationURLs, audioMuted : BOOLEAN, recentList : RecentLists]

SessionIDValues ==
    { JSUndefined } \cup { JSNumber(n) : n \in 1..MaxSessionID }
                    \cup { JSString(n) : n \in 1..MaxSessionID }

MutedPayloads == { Undefined, Some("true"), Some("false"), Some("1") }

NoMessage ==
    [command |-> "", sessionID |-> JSUndefined, data |-> Undefined,
     muted |-> Undefined]

\* Messages of the watch app: a command carries only its own payload.
Messages ==
    { [NoMessage EXCEPT !.command = c, !.sessionID = s] :
          c \in { CMD_HANG_UP, "UNKNOWN" }, s \in SessionIDValues }
    \cup { [NoMessage EXCEPT !.command = CMD_JOIN_CONFERENCE, !.sessionID = s,
                             !.data = d] :
               s \in SessionIDValues, d \in LocationURLs }
    \cup { [NoMessage EXCEPT !.command = CMD_SET_MUTED, !.sessionID = s,
                             !.muted = b] :
               s \in SessionIDValues, b \in MutedPayloads }

Event(kind) ==
    [kind |-> kind, message |-> NoMessage, error |-> FALSE,
     watchState |-> <<>>, performed |-> <<>>, time |-> 0,
     uncaught |-> FALSE, next |-> FALSE]

Envs == [throws : BOOLEAN]

----------------------------------------------------------------------------
(* The state machine. *)

Selections(state) ==
    [recent |-> RecentListSelector(state),
     muted |-> AudioMutedSelector(state),
     url |-> ConferenceUrlSelector(state)]

InitialState(recentList) ==
    [locationURL |-> Undefined, audioMuted |-> FALSE, recentList |-> recentList,
     sessionID |-> InitSessionID, conferenceTimestamp |-> Undefined]

\* The recent list is persisted: the application starts with any of `lists`.
InitWith(lists) ==
    /\ \E l \in lists : store = InitialState(l)
    /\ prevSelections = Selections(store)
    /\ subscriptions = 0
    /\ published = <<>>
    /\ hostActions = <<>>
    /\ rotations = 0
    /\ lastEvent = Event("init")
    /\ lastSnapshot = Undefined
    /\ pastSessionIDs = {}

Init == InitWith(RecentLists)

\* The machine an event starts on, and the state it leaves.
Machine ==
    [store |-> store, prevSelections |-> prevSelections, published |-> <<>>,
     hostActions |-> <<>>, rotations |-> 0, uncaught |-> FALSE, next |-> FALSE]

Commit(m, event) ==
    /\ m.store.sessionID <= MaxSessionID
    /\ store' = m.store
    /\ prevSelections' = m.prevSelections
    /\ published' = m.published
    /\ hostActions' = m.hostActions
    /\ rotations' = m.rotations
    /\ lastEvent' = [event EXCEPT !.uncaught = m.uncaught, !.next = m.next]
    /\ lastSnapshot' = IF m.published = <<>>
                       THEN lastSnapshot
                       ELSE Some(m.published[Len(m.published)].context)
    /\ pastSessionIDs' = IF m.store.sessionID # store.sessionID
                         THEN pastSessionIDs \cup { store.sessionID }
                         ELSE pastSessionIDs

WithHost(state, host) ==
    [state EXCEPT !.locationURL = host.locationURL,
                  !.audioMuted = host.audioMuted,
                  !.recentList = host.recentList]

\* The host application dispatches an action that leaves its slices as `host`
\* (any of them may change, or none); the store then notifies its listeners.
HostStoreChange(host, env) ==
    /\ Commit(Dispatch(Machine, WithHost(store, host), env), Event("store"))
    /\ UNCHANGED subscriptions

\* What the host's reducers make of the actions the watch commands dispatch.
HostReduce(state, action) ==
    IF action.type = "setAudioMuted"
    THEN [state EXCEPT !.audioMuted = action.muted]
    ELSE [state EXCEPT !.locationURL = action.url]

RECURSIVE PerformAll(_, _, _)
PerformAll(m, actions, env) ==
    IF actions = <<>>
    THEN m
    ELSE PerformAll(Dispatch(m, HostReduce(m.store, Head(actions)), env),
                    Tail(actions), env)

\* The host carries out the actions the last event dispatched.
HostPerforms(env) ==
    /\ hostActions # <<>>
    /\ Commit(PerformAll(Machine, hostActions, env),
              [Event("performed") EXCEPT !.performed = hostActions])
    /\ UNCHANGED subscriptions

\* case APP_WILL_MOUNT: _appWillMount(store); return next(action)
AppWillMount ==
    /\ subscriptions < MaxMounts
    /\ subscriptions' = subscriptions + 1
    /\ Commit([Machine EXCEPT !.next = TRUE], Event("mount"))

\* A middleware that publishes before it stamps the conference timestamp.
ConferenceJoined_PublishFirst(time, muted, env) ==
    LET sent == _updateApplicationContext(Machine, env)
        stamped == Dispatch(sent, setConferenceTimestamp(sent.store, time), env)
        passed == Dispatch([stamped EXCEPT !.next = TRUE],
                           [stamped.store EXCEPT !.audioMuted = muted], env)
    IN /\ Commit(passed, [Event("joined") EXCEPT !.time = time])
       /\ UNCHANGED subscriptions

\* case CONFERENCE_JOINED: stamp, publish, then next(action), whose reducers
\* leave the microphone muted or not (the conference's start-muted policy).
ConferenceJoined(time, muted, env) ==
    LET stamped == Dispatch(Machine, setConferenceTimestamp(store, time), env)
        sent == _updateApplicationContext(stamped, env)
        passed == IF sent.uncaught
                  THEN sent
                  ELSE Dispatch([sent EXCEPT !.next = TRUE],
                                [sent.store EXCEPT !.audioMuted = muted], env)
    IN /\ Commit(passed, [Event("joined") EXCEPT !.time = time])
       /\ UNCHANGED subscriptions

\* The transport reports its activation state to every registered callback.
WatchStateNotification(error, watchState, env) ==
    /\ Commit(EachWatchStateCallback(subscriptions, Machine, error, watchState, env),
              [Event("watchState") EXCEPT !.error = error,
                                          !.watchState = watchState])
    /\ UNCHANGED subscriptions

\* The transport delivers a message to every registered callback.
MessageDelivery(error, message, event) ==
    /\ Commit(EachMessageCallback(subscriptions, Machine, error, message),
              [event EXCEPT !.error = error])
    /\ UNCHANGED subscriptions

Next ==
    \/ \E host \in HostStates, env \in Envs : HostStoreChange(host, env)
    \/ \E env \in Envs : HostPerforms(env)
    \/ AppWillMount
    \/ \E time \in 1..MaxTime, muted \in BOOLEAN, env \in Envs :
           ConferenceJoined(time, muted, env)
    \/ \E env \in Envs :
           \/ \E watchState \in WatchStates :
                  WatchStateNotification(FALSE, watchState, env)
           \/ WatchStateNotification(TRUE, <<>>, env)
    \/ \E message \in Messages : MessageDelivery(FALSE, message, Event("message"))
    \/ MessageDelivery(TRUE, NoMessage, Event("message"))

Spec == Init /\ [][Next]_vars

(* The command dispatcher on its own: the recent list stays empty and no    *)
(* conference is joined, and every delivered message is kept in lastEvent.  *)
(* A delivery that the transport reports as an error may carry anything.    *)

InitDispatch == InitWith({ <<>> })

NextDispatch ==
    \/ \E url \in LocationURLs, muted \in BOOLEAN, env \in Envs :
           HostStoreChange([locationURL |-> url, audioMuted |-> muted,
                            recentList |-> store.recentList], env)
    \/ \E env \in Envs : HostPerforms(env)
    \/ AppWillMount
    \/ \E message \in Messages :
           MessageDelivery(FALSE, message,
                           [Event("message") EXCEPT !.message = message])
    \/ \E message \in Messages \cup { NoMessage } :
           MessageDelivery(TRUE, message,
                           [Event("message") EXCEPT !.message = message])

SpecDispatch == InitDispatch /\ [][NextDispatch]_vars

(* The recent-list projection on its own: the application starts with any  *)
(* list of distinct entries, the host appends and deletes entries, and the  *)
(* transport asks for the context.                                          *)

RECURSIVE DistinctSeqsUpTo(_, _)
DistinctSeqsUpTo(S, n) ==
    IF n = 0
    THEN { <<>> }
    ELSE LET shorter == DistinctSeqsUpTo(S, n - 1)
         IN shorter \cup
            UNION { { Append(q, e) :
                        e \in { x \in S : \A i \in 1..Len(q) : q[i] # x } } :
                    q \in shorter }

WideRecentLists == DistinctSeqsUpTo(RecentEntries, MaxWideLen)

Without(list, i) == SubSeq(list, 1, i - 1) \o SubSeq(list, i + 1, Len(list))

InitRecent == InitWith(WideRecentLists)

NextRecent ==
    \/ \E list \in { Append(store.recentList, e) : e \in RecentEntries }
                   \cup { Without(store.recentList, i) :
                              i \in 1..Len(store.recentList) },
          env \in Envs :
           /\ list \in WideRecentLists
           /\ HostStoreChange([locationURL |-> store.locationURL,
                               audioMuted |-> store.audioMuted,
                               recentList |-> list], env)
    \/ AppWillMount
    \/ \E env \in Envs : WatchStateNotification(FALSE, ACTIVATED, env)

SpecRecent == InitRecent /\ [][NextRecent]_vars

----------------------------------------------------------------------------
(* The claims. *)

Last(s) == s[Len(s)]

IsMessage(event) == event.kind = "message" /\ ~event.error

\* C1: a host action is invoked for a message only if the message's sessionID
\* is present and strictly equal to the store's sessionID when the message is
\* processed; any other message is dropped: no host action, no publish, and
\* the store is left as it was.
C1_SessionChecked ==
    [][lastEvent'.kind = "message" =>
           LET current ==
                   /\ lastEvent'.message.sessionID.type # "undefined"
                   /\ lastEvent'.message.sessionID = JSNumber(store.sessionID)
           IN /\ hostActions' # <<>> => current
              /\ ~current => /\ hostActions' = <<>>
                             /\ published' = <<>>
                             /\ store' = store]_vars

\* C1, its case: after a rotation, a message of the current session was acted on.
C1_Witness ==
    /\ IsMessage(lastEvent)
    /\ lastEvent.message.sessionID = JSNumber(store.sessionID)
    /\ store.sessionID > InitSessionID
    /\ hostActions # <<>>

\* C2: a message carrying the id of a session that a rotation has replaced is
\* rejected, whatever its command and whenever it is delivered.
C2_StaleRejected ==
    [][(/\ lastEvent'.kind = "message"
        /\ lastEvent'.message.sessionID.type # "undefined"
        /\ lastEvent'.message.sessionID.value \in pastSessionIDs)
           => hostActions' = <<>>]_vars

\* C2, its case: two sessions later, a join of another conference that carries
\* the first session's id is delivered to a registered callback and dropped.
C2_Witness ==
    /\ IsMessage(lastEvent)
    /\ subscriptions > 0
    /\ Cardinality(pastSessionIDs) = 2
    /\ lastEvent.message.command = CMD_JOIN_CONFERENCE
    /\ lastEvent.message.sessionID = JSNumber(InitSessionID)
    /\ lastEvent.message.data # Undefined
    /\ lastEvent.message.data # _getCurrentConferenceUrl(store)
    /\ hostActions = <<>>

\* C3: an event dispatches setSessionId once when the canonical conference URL
\* it leaves differs from the one it found, and not at all when it is the same:
\* over a sequence of observed URLs the rotations number the adjacent differing
\* pairs.
C3_RotationPerChange ==
    [][rotations' = IF _getCurrentConferenceUrl(store')
                         # _getCurrentConferenceUrl(store)
                    THEN 1
                    ELSE 0]_vars

\* C3, its case: after two rotations the store changed again (a listener ran
\* and published) with the same canonical URL, and no rotation followed.
C3_Witness ==
    /\ lastEvent.kind = "store"
    /\ Cardinality(pastSessionIDs) = 2
    /\ published # <<>>
    /\ rotations = 0

\* C4: sessionID changes only in an event that changes the canonical conference
\* URL; a mount, a conference-joined event, an activation notification and the
\* processing of a message leave it as it was.
C4_SessionWrittenOnUrlChangeOnly ==
    [][/\ store'.sessionID # store.sessionID
           => _getCurrentConferenceUrl(store') # _getCurrentConferenceUrl(store)
       /\ lastEvent'.kind \in { "mount", "joined", "watchState", "message" }
           => store'.sessionID = store.sessionID]_vars

\* C4, its case: the mute flag and the recent list changed in one store change,
\* both listeners published, and the session stayed the one it was.
C4_Witness ==
    /\ lastEvent.kind = "store"
    /\ Len(published) = 2
    /\ rotations = 0
    /\ \A i \in 1..2 : published[i].context.sessionID = store.sessionID

\* C5: a HANG_UP of the current session that is processed while no conference
\* is active (the canonical conference URL is undefined) invokes no navigation.
C5_HangUpIdempotent ==
    [][(/\ lastEvent'.kind = "message"
        /\ lastEvent'.message.command = CMD_HANG_UP
        /\ lastEvent'.message.sessionID = JSNumber(store.sessionID)
        /\ _getCurrentConferenceUrl(store) = Undefined)
           => \A i \in 1..Len(hostActions') :
                  hostActions'[i].type # "appNavigate"]_vars

\* C5, the other half of the claim, which the code keeps: a HANG_UP of the
\* current session with a conference active invokes appNavigate(undefined),
\* and nothing else.
C5_HangUpLeaves ==
    [][(/\ lastEvent'.kind = "message"
        /\ ~lastEvent'.error
        /\ lastEvent'.message.command = CMD_HANG_UP
        /\ lastEvent'.message.sessionID = JSNumber(store.sessionID)
        /\ _getCurrentConferenceUrl(store) # Undefined)
           => /\ Len(hostActions') = subscriptions
              /\ \A i \in 1..Len(hostActions') :
                     /\ hostActions'[i].type = "appNavigate"
                     /\ hostActions'[i].url = Undefined]_vars

\* C6: a JOIN_CONFERENCE of the current session navigates, to the URL it
\* carries, only when that URL differs from the canonical conference URL; a
\* join of the conference the host is on, however often it is sent, navigates
\* nowhere.
C6_JoinIdempotent ==
    [][(/\ lastEvent'.kind = "message"
        /\ lastEvent'.message.command = CMD_JOIN_CONFERENCE)
           => /\ lastEvent'.message.data = _getCurrentConferenceUrl(store)
                  => hostActions' = <<>>
              /\ \A i \in 1..Len(hostActions') :
                     /\ hostActions'[i].type = "appNavigate"
                     /\ hostActions'[i].url = lastEvent'.message.data]_vars

\* C6, its case: a join of the conference the host is on, carrying the current
\* session, reached a registered callback and navigated nowhere.
C6_Witness ==
    /\ IsMessage(lastEvent)
    /\ subscriptions > 0
    /\ lastEvent.message.command = CMD_JOIN_CONFERENCE
    /\ lastEvent.message.sessionID = JSNumber(store.sessionID)
    /\ lastEvent.message.data # Undefined
    /\ lastEvent.message.data = _getCurrentConferenceUrl(store)
    /\ hostActions = <<>>

\* C7: a SET_MUTED of the current session invokes setAudioMuted(true, true)
\* when its payload is "true" and setAudioMuted(false, true) for any other
\* payload; and an event that changes the host's mute flag ends with a publish
\* whose micMuted is the new flag.
C7_MuteRoundTrip ==
    [][/\ (/\ lastEvent'.kind = "message"
           /\ ~lastEvent'.error
           /\ lastEvent'.message.command = CMD_SET_MUTED
           /\ lastEvent'.message.sessionID = JSNumber(store.sessionID))
              => /\ Len(hostActions') = subscriptions
                 /\ \A i \in 1..Len(hostActions') :
                        hostActions'[i] =
                            [type |-> "setAudioMuted", url |-> Undefined,
                             muted |-> (lastEvent'.message.muted = <<"true">>),
                             ensureTrack |-> TRUE]
       /\ store'.audioMuted # store.audioMuted
              => /\ published' # <<>>
                 /\ Last(published').context.micMuted = store'.audioMuted]_vars

\* C7, its case: the host carried out the setAudioMuted(true, true) that a
\* SET_MUTED "true" dispatched, and the publish that followed says micMuted.
C7_Witness ==
    /\ lastEvent.kind = "performed"
    /\ lastEvent.performed[1] =
           [type |-> "setAudioMuted", url |-> Undefined, muted |-> TRUE,
            ensureTrack |-> TRUE]
    /\ published # <<>>
    /\ Last(published).context.micMuted
    /\ store.audioMuted

\* The context of a store state, field by field.
C9_Whole(state) ==
    [conferenceTimestamp |-> state.conferenceTimestamp,
     conferenceURL |-> _getCurrentConferenceUrl(state),
     micMuted |-> state.audioMuted,
     recentURLs |-> _getRecentUrls(state).returned,
     sessionID |-> state.sessionID]

\* C8: once APP_WILL_MOUNT has been processed, an 'activated' notification, in
\* any letter case and without error, causes exactly one publish, of the
\* current store state.
C8_ActivatedPublishesOnce ==
    [][(/\ lastEvent'.kind = "watchState"
        /\ ~lastEvent'.error
        /\ lastEvent'.watchState
               \in { <<"a","c","t","i","v","a","t","e","d">>,
                     <<"A","c","t","i","v","a","t","e","d">>,
                     <<"A","C","T","I","V","A","T","E","D">> }
        /\ subscriptions >= 1)
           => Len(published') = 1]_vars

\* C8, what the code does instead: every callback that an APP_WILL_MOUNT
\* registered publishes the current store state once.
C8_ActivatedPublishesPerMount ==
    [][(/\ lastEvent'.kind = "watchState"
        /\ ~lastEvent'.error
        /\ lastEvent'.watchState
               \in { <<"a","c","t","i","v","a","t","e","d">>,
                     <<"A","c","t","i","v","a","t","e","d">>,
                     <<"A","C","T","I","V","A","T","E","D">> })
           => /\ Len(published') = subscriptions
              /\ \A i \in 1..Len(published') :
                     published'[i].context = C9_Whole(store)
              /\ store' = store]_vars

\* C9: an event that changes the recent list, the mute flag or the canonical
\* conference URL publishes; every context published is whole: its five fields
\* are those of one store state of the event (the session, the mute flag and
\* the timestamp being the event's old or new ones); and the last one is the
\* store state the event leaves.
C9_WholeSnapshot ==
    [][/\ (\/ store'.recentList # store.recentList
           \/ store'.audioMuted # store.audioMuted
           \/ _getCurrentConferenceUrl(store') # _getCurrentConferenceUrl(store))
              => published' # <<>>
       /\ \A i \in 1..Len(published') :
              \E sid \in { store.sessionID, store'.sessionID },
                 muted \in { store.audioMuted, store'.audioMuted },
                 time \in { store.conferenceTimestamp,
                            store'.conferenceTimestamp } :
                  published'[i].context =
                      C9_Whole([store' EXCEPT !.sessionID = sid,
                                              !.audioMuted = muted,
                                              !.conferenceTimestamp = time])
       /\ published' # <<>>
              => Last(published').context = C9_Whole(store')]_vars

\* C9, its case: one store change changed all three slices of a store that
\* holds a conference timestamp, and each of the three listeners published.
C9_Witness ==
    /\ lastEvent.kind = "store"
    /\ Len(published) = 3
    /\ store.conferenceTimestamp # Undefined
    /\ store.recentList # <<>>
    /\ published[3].context.conferenceTimestamp = store.conferenceTimestamp

Min(a, b) == IF a < b THEN a ELSE b

\* C10: every published recentURLs holds the last MAX_RECENT_URLS entries of
\* the store's recent list, the most recent first, and an activation publish
\* leaves the store's list as it was.
C10_RecentProjection ==
    [][/\ published' # <<>>
           => LET L == store'.recentList
                  R == Last(published').context.recentURLs
              IN /\ Len(R) = Min(Len(L), MAX_RECENT_URLS)
                 /\ \A i \in 1..Len(R) : R[i] = L[Len(L) + 1 - i]
       /\ lastEvent'.kind = "watchState" => store' = store]_vars

\* C10, its case: the list [a, b, c, d, e] was published as [e, d, c].
C10_Witness ==
    /\ lastEvent.kind = "watchState"
    /\ store.recentList = <<"a", "b", "c", "d", "e">>
    /\ published # <<>>
    /\ Last(published).context.recentURLs = <<"e", "d", "c">>

\* The canonical form of features/base/connection's URL, as the spec words
\* it: undefined when no invite URL is ready or the URL ends with a slash.
C11_Canonical(locationURL) ==
    IF locationURL = Undefined
    THEN Undefined
    ELSE IF locationURL[1][Len(locationURL[1])] = "/"
         THEN Undefined
         ELSE locationURL

C12_PublishBestEffort ==
    [][(\E i \in 1..Len(published') : published'[i].threw)
           => /\ ~lastEvent'.uncaught
              /\ lastEvent'.kind = "joined" => lastEvent'.next
              /\ prevSelections' =
                     [recent |-> store'.recentList,
                      muted |-> store'.audioMuted,
                      url |-> _getCurrentConferenceUrl(store')]
              /\ lastEvent'.kind = "watchState"
                     => /\ store' = store
                        /\ Len(published') = subscriptions
              /\ lastEvent'.kind = "store"
                     => Len(published') =
                            (IF store'.recentList # store.recentList
                             THEN 1 ELSE 0)
                            + (IF store'.audioMuted # store.audioMuted
                               THEN 1 ELSE 0)
                            + (IF _getCurrentConferenceUrl(store')
                                      # _getCurrentConferenceUrl(store)
                               THEN 1 ELSE 0)]_vars

\* C12, its case: the publish of a CONFERENCE_JOINED threw; the action was
\* passed on all the same and the mute listener published after it.
C12_Witness ==
    /\ lastEvent.kind = "joined"
    /\ Len(published) = 2
    /\ published[1].threw
    /\ lastEvent.next
    /\ ~lastEvent.uncaught

\* C13: a message whose command is none of HANG_UP, JOIN_CONFERENCE and
\* SET_MUTED invokes no host action, publishes nothing and leaves the store as
\* it was, also when it carries the current session.
C13_UnknownCommandIgnored ==
    [][(/\ lastEvent'.kind = "message"
        /\ lastEvent'.message.command
               \notin { CMD_HANG_UP, CMD_JOIN_CONFERENCE, CMD_SET_MUTED })
           => /\ hostActions' = <<>>
              /\ published' = <<>>
              /\ store' = store
              /\ ~lastEvent'.uncaught]_vars

\* C13, its case: an unknown command of the current session reached a
\* registered callback and nothing was dispatched.
C13_Witness ==
    /\ IsMessage(lastEvent)
    /\ subscriptions > 0
    /\ lastEvent.message.command = "UNKNOWN"
    /\ lastEvent.message.sessionID = JSNumber(store.sessionID)
    /\ hostActions = <<>>

\* C14: a delivery that the transport reports as an error invokes no host
\* action and publishes nothing, whatever message comes with it, and leaves
\* everything a later delivery depends on as it was: the store, the registered
\* callbacks and the listeners' selections.
C14_ErrorDeliveryDropped ==
    [][(lastEvent'.kind = "message" /\ lastEvent'.error)
           => /\ hostActions' = <<>>
              /\ published' = <<>>
              /\ ~lastEvent'.uncaught
              /\ UNCHANGED <<store, subscriptions, prevSelections,
                             lastSnapshot, pastSessionIDs>>]_vars

\* C14, its case: an error delivery came with a HANG_UP of the current
\* session while a conference was active, and nothing was dispatched.
C14_Witness ==
    /\ lastEvent.kind = "message"
    /\ lastEvent.error
    /\ subscriptions > 0
    /\ lastEvent.message.command = CMD_HANG_UP
    /\ lastEvent.message.sessionID = JSNumber(store.sessionID)
    /\ _getCurrentConferenceUrl(store) # Undefined
    /\ hostActions = <<>>

\* C15: once the canonical conference URL has changed, no context is published
\* that carries the new conferenceURL together with the sessionID of before
\* the change, whatever else the same store change changed.
C15_RotationBeforePublish ==
    [][_getCurrentConferenceUrl(store') # _getCurrentConferenceUrl(store)
           => \A i \in 1..Len(published') :
                  ~(/\ published'[i].context.conferenceURL
                           = _getCurrentConferenceUrl(store')
                    /\ published'[i].context.sessionID = store.sessionID)]_vars

\* C15, what the code does instead: the listeners of the recent list and of
\* the mute flag publish the new URL with the old sessionID when their slice
\* changed with the URL; the URL listener's own publish, the last of the
\* event, carries the new sessionID.
C15_LastPublishRotated ==
    [][_getCurrentConferenceUrl(store') # _getCurrentConferenceUrl(store)
           => /\ published' # <<>>
              /\ Last(published').context.sessionID = store'.sessionID
              /\ store'.sessionID # store.sessionID
              /\ \A i \in 1..(Len(published') - 1) :
                     published'[i].context.sessionID = store.sessionID]_vars

\* C16: a CONFERENCE_JOINED sets conferenceTimestamp to the current time, then
\* attempts one publish whose context carries that timestamp, both before the
\* action is passed on (the context still holds the mute flag of before the
\* action's reducers ran), and the action is passed on; whatever is published
\* after that is the mute listener's, when the reducers changed the flag.
C16_JoinedStampsThenPublishes ==
    [][lastEvent'.kind = "joined"
           => /\ store'.conferenceTimestamp = Some(lastEvent'.time)
              /\ published' # <<>>
              /\ published'[1].context.conferenceTimestamp
                     = Some(lastEvent'.time)
              /\ published'[1].context.micMuted = store.audioMuted
              /\ lastEvent'.next
              /\ Len(published') = 1 + (IF store'.audioMuted # store.audioMuted
                                        THEN 1 ELSE 0)]_vars

\* C16, its case: the first CONFERENCE_JOINED, whose reducers muted the
\* microphone: the context published first has the timestamp and not the mute.
C16_Witness ==
    /\ lastEvent.kind = "joined"
    /\ lastEvent.next
    /\ Len(published) = 2
    /\ published[1].context.conferenceTimestamp = Some(lastEvent.time)
    /\ ~published[1].context.micMuted
    /\ store.audioMuted

\* C17: a SET_MUTED message whose sessionID denotes the current sessionID,
\* as a number or as a string, is accepted: the mute action is dispatched.
C17_BothEncodingsAccepted ==
    [][(/\ IsMessage(lastEvent')
        /\ subscriptions >= 1
        /\ lastEvent'.message.command = CMD_SET_MUTED
        /\ lastEvent'.message.sessionID.type \in { "number", "string" }
        /\ lastEvent'.message.sessionID.value = store.sessionID)
           => hostActions' # <<>>]_vars

\* C17, what the code does instead: of the two encodings only the number is
\* accepted.
C17_NumberEncodingOnly ==
    [][(/\ IsMessage(lastEvent')
        /\ subscriptions >= 1
        /\ lastEvent'.message.command = CMD_SET_MUTED
        /\ lastEvent'.message.sessionID.value = store.sessionID)
           => (hostActions' # <<>>
                   <=> lastEvent'.message.sessionID.type = "number")]_vars

C19_QuiescentConsistency ==
    /\ [](lastSnapshot # Undefined => lastSnapshot[1] = C9_Whole(store))
    /\ [][C9_Whole(store') # C9_Whole(store)
              => /\ published' # <<>>
                 /\ lastSnapshot' = Some(C9_Whole(store'))]_vars

\* C19, its case: a store change made two listeners publish, the first of
\* them a context the event has since outdated, and the transport threw on
\* the last attempt: its context is the projection of the store.
C19_Witness ==
    /\ lastEvent.kind = "store"
    /\ Len(published) >= 2
    /\ published[1].context # C9_Whole(store)
    /\ Last(published).threw
    /\ lastSnapshot = Some(C9_Whole(store))

\* C20: a delivered message causes at most one host action and an 'activated'
\* notification exactly one publish, however many APP_WILL_MOUNT came before.
C20_ExactlyOnce ==
    [][/\ lastEvent'.kind = "message" => Len(hostActions') <= 1
       /\ (/\ lastEvent'.kind = "watchState"
           /\ ~lastEvent'.error
           /\ toLowerCase(lastEvent'.watchState) = ACTIVATED
           /\ subscriptions >= 1)
              => Len(published') = 1]_vars

\* C20, what the code does instead: a message is processed, and an activation
\* published, once for every APP_WILL_MOUNT so far.
C20_OncePerMount ==
    [][/\ lastEvent'.kind = "message"
              => Len(hostActions') \in { 0, subscriptions }
       /\ (/\ lastEvent'.kind = "watchState"
           /\ ~lastEvent'.error
           /\ toLowerCase(lastEvent'.watchState) = ACTIVATED)
              => Len(published') = subscriptions]_vars

====
